---------------------------- MODULE Spec2Model ----------------------------
(***************************************************************************)
(* Model of the ExpressJSTutorial.com repository.                          *)
(*                                                                         *)
(*  - the homepage component src/components/HomepageFeatures/index.tsx:    *)
(*    the static FeatureList table, Feature and HomepageFeatures;          *)
(*  - the authentication service of the tutorial application               *)
(*    (docs/Authentication/the-user-model.md): the Users table of the      *)
(*    migration, the User model's validation, the user repository and      *)
(*    authService.register; login (unnamed/part_002) and the welcome email *)
(*    (docs/Common Features/sending-emails.md);                            *)
(*  - the error handling of the application (unnamed/part_000): ApiError,  *)
(*    globalErrorHandler and catchAsync;                                   *)
(*  - the post routes at each step of the tutorial (intro.md,              *)
(*    the-service-layer.md, unnamed/part_001) and the authenticate         *)
(*    middleware (docs/Authentication/protecting-routes.md).               *)
(***************************************************************************)
EXTENDS Integers, Sequences, FiniteSets, TLC

VARIABLES
    featureList,    \* the value bound to the module constant FeatureList
    rendered,       \* what each call of HomepageFeatures() returned or threw, oldest first
    Users,          \* the rows of the Users table
    nextId,         \* the next value of the autoIncrement sequence of Users.id
    calls,          \* every request to the API: where it stands, its locals and its answer
    config,         \* the object exported by src/config/index.js
    revision,       \* which step of the tutorial the running application is at
    Posts,          \* the rows of the Posts table
    nextPostId,     \* the next value of the autoIncrement sequence of Posts.id
    fakeDb,         \* the array _fakeDb of the first post repository
    now,            \* Date.now() of the server, in milliseconds
    restarts,       \* how often the server process was stopped and started again
    acked           \* the posts the clients were answered 201 for

siteVars == <<featureList, rendered>>
authVars == <<Users, nextId, calls>>
deployVars == <<config, revision>>
postVars == <<Posts, nextPostId, fakeDb, now, restarts, acked>>
vars ==
    <<featureList, rendered, Users, nextId, calls, config, revision,
      Posts, nextPostId, fakeDb, now, restarts, acked>>

-----------------------------------------------------------------------------
(* Bounds of the model.                                                    *)

\* longest FeatureItem sequence given to the renderer
MaxItems == 3
\* number of times the page is rendered in one behaviour
MaxRenders == 2
\* number of requests to the API in flight or answered at one time, all of
\* which may overlap
MaxRequests == 2

-----------------------------------------------------------------------------
(* JavaScript values.                                                      *)

\* A binding holds an array or nothing at all; elems is read only of an array.
Array(elems) == [kind |-> "array", elems |-> elems]
Undefined == [kind |-> "undefined", elems |-> <<>>]

BoundedSeq(S, n) == UNION {[1..k -> S] : k \in 0..n}

-----------------------------------------------------------------------------
(* src/components/HomepageFeatures/index.tsx                               *)

\* A description is a fragment <>...</>: the sequence of its children.
Item1 ==
    [title |-> "Solve the Chaos",
     Svg |-> "compass.svg",
     description |-> <<"Express.js is powerful but unopinionated. We provide the missing framework: a clear, consistent structure (Controllers, Services, Repositories) for scalable projects.">>]

Item2 ==
    [title |-> "Production Focus",
     Svg |-> "cloud.svg",
     description |-> <<"Move beyond simple CRUD. Learn essential real-world concepts like Dockerization, CI/CD pipelines, robust error handling, and security hardening from day one.">>]

Item3 ==
    [title |-> "End-to-End Backend",
     Svg |-> "link.svg",
     description |-> <<"Gain expert-level implementation knowledge for architecting, securing, testing, and deploying robust API services">>]

\* The table with its first two entries in the other order.
FeatureListReordered == Array(<<Item2, Item1, Item3>>)

\* const FeatureList: FeatureItem[] = [...]
FeatureList == Array(<<Item1, Item2, Item3>>)

\* The earlier revision of the same table, kept in the documentation tree.
FeatureListDoc ==
    Array(<<
        [title |-> "Solve the Chaos",
         Svg |-> "undraw_docusaurus_mountain.svg",
         description |-> Item1.description],
        [title |-> "Production Focus",
         Svg |-> "undraw_docusaurus_tree.svg",
         description |-> Item2.description],
        [title |-> "End-to-End Backend",
         Svg |-> "undraw_docusaurus_react.svg",
         description |-> <<"Comprehensive guides on integrating the entire modern Node stack, focusing on PostgreSQL for data integrity and Sequelize for high-quality ORM development.">>]
    >>)

\* clsx(...args): the truthy class arguments, in order.
clsx(args) == SelectSeq(args, LAMBDA a : a # "")

\* Heading that drops what it is given to show.
HeadingNoChildren(as, children) == [type |-> as, children |-> ""]

\* <Heading as="h3">{children}</Heading>
Heading(as, children) == [type |-> as, children |-> children]

\* Feature whose paragraph shows the title again instead of the description.
FeatureParagraphTitle(props) ==
    [type |-> "div",
     className |-> clsx(<<"col col--4">>),
     children |-> <<
        [type |-> "div",
         className |-> "text--center",
         children |-> <<[type |-> props.Svg, className |-> "featureSvg", role |-> "img"]>>],
        [type |-> "div",
         className |-> "text--center padding-horiz--md",
         children |-> <<Heading("h3", props.title),
                        [type |-> "p", children |-> <<props.title>>]>>]
     >>]

\* Feature whose column class depends on the item: wider when there is no text.
FeatureContentWidth(props) ==
    [type |-> "div",
     className |-> clsx(<<IF props.description = <<>> THEN "col col--6" ELSE "col col--4">>),
     children |-> <<
        [type |-> "div",
         className |-> "text--center",
         children |-> <<[type |-> props.Svg, className |-> "featureSvg", role |-> "img"]>>],
        [type |-> "div",
         className |-> "text--center padding-horiz--md",
         children |-> <<Heading("h3", props.title),
                        [type |-> "p", children |-> props.description]>>]
     >>]

\* function Feature({ title, Svg, description }: FeatureItem)
Feature(props) ==
    [type |-> "div",
     className |-> clsx(<<"col col--4">>),
     children |-> <<
        [type |-> "div",
         className |-> "text--center",
         children |-> <<[type |-> props.Svg, className |-> "featureSvg", role |-> "img"]>>],
        [type |-> "div",
         className |-> "text--center padding-horiz--md",
         children |-> <<Heading("h3", props.title),
                        [type |-> "p", children |-> props.description]>>]
     >>]

\* Reading a property of undefined throws.
TypeError == [type |-> "TypeError", className |-> "", children |-> <<>>]

\* map that walks the table from its end.
MapFeaturesReversed(list) ==
    [idx \in 1..Len(list) |->
        [key |-> idx - 1, element |-> Feature(list[Len(list) + 1 - idx])]]

\* map whose keys come from a counter that outlives the render.
MapFeaturesCounter(list) ==
    [idx \in 1..Len(list) |->
        [key |-> Len(rendered) * Len(list) + idx - 1, element |-> Feature(list[idx])]]

\* FeatureList.map((props, idx) => <Feature key={idx} {...props} />)
MapFeatures(list) ==
    [idx \in 1..Len(list) |-> [key |-> idx - 1, element |-> Feature(list[idx])]]

\* HomepageFeatures that reads the first entry before mapping the table.
HomepageFeaturesFirstEntry ==
    IF featureList.kind = "undefined" \/ featureList.elems = <<>>
    THEN TypeError
    ELSE [type |-> "section",
          className |-> "features",
          children |-> <<
            [type |-> "div",
             className |-> "container",
             children |-> <<
                [type |-> "div",
                 className |-> "row",
                 children |-> MapFeatures(featureList.elems)]
             >>]
          >>]

\* export default function HomepageFeatures(): ReactNode
HomepageFeatures ==
    IF featureList.kind = "undefined"
    THEN TypeError
    ELSE [type |-> "section",
          className |-> "features",
          children |-> <<
            [type |-> "div",
             className |-> "container",
             children |-> <<
                [type |-> "div",
                 className |-> "row",
                 children |-> MapFeatures(featureList.elems)]
             >>]
          >>]

\* Reading the markup back.
Threw(out) == out.type = "TypeError"
Row(out) == out.children[1].children[1]
Blocks(out) == Row(out).children
IconOf(block) == block.element.children[1].children[1]
HeadingOf(block) == block.element.children[2].children[1]
ParagraphOf(block) == block.element.children[2].children[2]

Reverse(seq) == [i \in 1..Len(seq) |-> seq[Len(seq) + 1 - i]]

\* A render that reverses the table in place before mapping it.
RenderReversing ==
    /\ Len(rendered) < MaxRenders
    /\ featureList.kind = "array"
    /\ featureList' = Array(Reverse(featureList.elems))
    /\ rendered' = Append(rendered, HomepageFeatures)
    /\ UNCHANGED authVars
    /\ UNCHANGED deployVars
    /\ UNCHANGED postVars

\* One page render: the site generator calls the component and keeps the markup.
Render ==
    /\ Len(rendered) < MaxRenders
    /\ rendered' = Append(rendered, HomepageFeatures)
    /\ UNCHANGED featureList
    /\ UNCHANGED authVars
    /\ UNCHANGED deployVars
    /\ UNCHANGED postVars

-----------------------------------------------------------------------------
(* src/utils/ApiError.js                                                   *)

RECURSIVE FirstDigit(_)
FirstDigit(n) == IF n < 10 THEN n ELSE FirstDigit(n \div 10)

\* class ApiError extends Error: constructor(statusCode, message)
ApiError(statusCode, message) ==
    [name |-> "ApiError",
     statusCode |-> statusCode,
     status |-> IF FirstDigit(statusCode) = 4 THEN "fail" ELSE "error",
     message |-> message,
     isOperational |-> TRUE,
     errors |-> <<>>]

\* An error of Sequelize: an Error with none of ApiError's fields set (0, ""
\* and FALSE stand for undefined).  Its message is "Validation error"; the
\* messages of the validators that failed are its errors.
SequelizeError(name, errors) ==
    [name |-> name,
     statusCode |-> 0,
     status |-> "",
     message |-> "Validation error",
     isOperational |-> FALSE,
     errors |-> errors]

\* How a call ended: it returned a value or it threw an error.
Pending == [kind |-> "none", payload |-> <<>>]
Return(value) == [kind |-> "return", payload |-> value]
Throw(error) == [kind |-> "throw", payload |-> error]

-----------------------------------------------------------------------------
(* src/config/index.js, src/middlewares/error.middleware.js and            *)
(* src/utils/catchAsync.js                                                 *)

\* the values NODE_ENV takes; development when it is not set
Envs == {"development", "production", "test"}

\* const config = { app: {...}, jwt: {...} }
ConfigOf(env) ==
    [app |-> [port |-> 3000, env |-> env],
     jwt |-> [secret |-> "my-super-secret-long-key-change-this", expiresIn |-> "1d"]]

\* A response: res.status(statusCode).json(body); status 0 when none was sent.
NoResponse == [statusCode |-> 0, body |-> [status |-> ""]]
Json(statusCode, body) == [statusCode |-> statusCode, body |-> body]

\* err.statusCode = err.statusCode || 500; err.status = err.status || "error"
WithDefaults(err) ==
    [err EXCEPT !.statusCode = IF @ = 0 THEN 500 ELSE @,
                !.status = IF @ = "" THEN "error" ELSE @]

\* err.stack: the line naming the error and its message, then the frames
Stack(err) == <<err.name, err.message, "    at ...">>

\* globalErrorHandler that sends every error's own message outside development.
globalErrorHandlerLeaking(err) ==
    LET e == WithDefaults(err) IN
    IF config.app.env = "development"
    THEN Json(e.statusCode,
              [status |-> e.status, error |-> e, message |-> e.message, stack |-> Stack(e)])
    ELSE Json(e.statusCode, [status |-> e.status, message |-> e.message])

\* const globalErrorHandler = (err, req, res, next) => {...}
globalErrorHandler(err) ==
    LET e == WithDefaults(err) IN
    IF config.app.env = "development"
    THEN Json(e.statusCode,
              [status |-> e.status, error |-> e, message |-> e.message, stack |-> Stack(e)])
    ELSE IF e.isOperational
    THEN Json(e.statusCode, [status |-> e.status, message |-> e.message])
    ELSE Json(500, [status |-> "error", message |-> "Something went very wrong!"])

\* One call of next: by whom, and with which arguments.
NextCall(from, args) == [from |-> from, args |-> args]

\* A wrapper that also calls next() when the handler succeeded.
catchAsyncAlwaysNext(fnOutcome) ==
    IF fnOutcome.kind = "throw"
    THEN <<NextCall("catchAsync", <<fnOutcome.payload>>)>>
    ELSE <<NextCall("catchAsync", <<>>)>>

\* fn(req, res, next).catch(next): the calls of next the wrapper makes, given how
\* the promise of the async handler fn settled
catchAsync(fnOutcome) ==
    IF fnOutcome.kind = "throw"
    THEN <<NextCall("catchAsync", <<fnOutcome.payload>>)>>
    ELSE <<>>

\* A controller catchAsync(async (req, res) => {...}) finishing: the service
\* returned, and the controller answers okStatus with the result, or it threw,
\* the wrapper hands the error to next and globalErrorHandler answers.
Controller(call, outcome, okStatus) ==
    LET nexts == catchAsync(outcome) IN
    [call EXCEPT
        !.pc = "done",
        !.outcome = outcome,
        !.next = @ \o nexts,
        !.res = IF outcome.kind = "return"
                THEN Json(okStatus, [status |-> "success", data |-> outcome.payload])
                ELSE IF nexts # <<>> /\ nexts[Len(nexts)].args # <<>>
                THEN globalErrorHandler(nexts[Len(nexts)].args[1])
                ELSE NoResponse]

-----------------------------------------------------------------------------
(* docs/Authentication/the-user-model.md                                   *)
(*                                                                         *)
(* An email is the sequence of its parts around "@"; a password and a      *)
(* bcrypt hash are sequences of pieces, so that both fit the one STRING    *)
(* column: a plain text is one piece, a hash is "$2a$", the cost, the salt *)
(* and the digest.  createdAt and updatedAt are left out of the rows.      *)

\* bcrypt.hash(userData.password, 10): the salt rounds
SaltRounds == 10

\* the salts bcrypt may draw
Salts == {"saltA", "saltB"}

\* bcrypt.hash(s, rounds) with the salt it drew
bcryptHash(s, rounds, salt) == <<"$2a$", rounds, salt, <<"bcrypt", rounds, salt, s>>>>

\* validator's isEmail: a non-empty local part, "@", a non-empty domain
isEmail(email) == Len(email) = 2 /\ email[1] # "" /\ email[2] # ""

\* User.init validate: the messages of the validators that fail, in order
UserValidationErrors(values) ==
    (IF values.name = "" THEN <<"Name cannot be empty">> ELSE <<>>)
    \o (IF ~isEmail(values.email) THEN <<"Must be a valid email address">> ELSE <<>>)
    \o (IF values.email = <<>> THEN <<"Email cannot be empty">> ELSE <<>>)

\* userRepository.findUserByEmail: User.findOne({ where: { email } }), null as {}
findUserByEmail(email) ==
    LET found == {u \in Users : u.email = email}
    IN  IF found = {} THEN {} ELSE {CHOOSE u \in found : \A v \in found : u.id <= v.id}

\* The row INSERT INTO "Users" would add.
NewRow(values) ==
    [id |-> nextId, name |-> values.name, email |-> values.email,
     password |-> values.password]

\* A Users table created without the unique constraint on email.
ViolatesUniqueNever(row) == FALSE

\* Users.email is unique: true (the migration's constraint)
ViolatesUnique(row) == \E u \in Users : u.email = row.email

\* newUser.toJSON() followed by delete userResponse.password
WithoutPassword(row) == [id |-> row.id, name |-> row.name, email |-> row.email]

\* The request bodies: name, email and password are strings.
John == <<"john", "example.com">>
Jane == <<"jane", "example.com">>
Passwords == {<<"supersecretpassword">>, <<"wrongpassword">>}
RegisterBodies ==
    [name : {"John Doe"}, email : {John, Jane}, password : Passwords]
    \cup {[name |-> "", email |-> John, password |-> <<"supersecretpassword">>],
          [name |-> "John Doe", email |-> <<"not-an-email">>,
           password |-> <<"supersecretpassword">>]}

Requests == 1..MaxRequests

\* A request slot: op is the route, userData the body of an auth request (a
\* login body has no name), existingUser the row findUserByEmail gave, mail
\* the welcome email; for the post routes postData is the body, authorization
\* the header, decoded the payload of the token, user the row put in req.user,
\* before the posts the clients had been answered 201 for when the request
\* was sent, newUser the row createUser gave register, and request the method,
\* the URL, the state of the JSON body and the query string of a request that
\* is followed through app.js; paging is the limit and offset given to the
\* repository.
NoBody == [name |-> "", email |-> <<>>, password |-> <<>>]
NoPost == [title |-> <<>>, content |-> <<>>]
NoPayload == [id |-> 0, email |-> <<>>]
\* A value of req.query: the parameter is absent (undefined), given empty
\* ("?size="), given as the decimal text of the integer n, or given as text
\* that is no number ("abc").
Absent == [kind |-> "absent", n |-> 0]
Empty == [kind |-> "empty", n |-> 0]
Num(n) == [kind |-> "number", n |-> n]
Text == [kind |-> "text", n |-> 0]

\* A JavaScript number: an integer, NaN or Infinity.
Finite(n) == [kind |-> "finite", n |-> n]
NaN == [kind |-> "NaN", n |-> 0]
Infinity == [kind |-> "Infinity", n |-> 0]

NoQuery == [page |-> Absent, size |-> Absent, title |-> ""]
NoPaging == [limit |-> Finite(0), offset |-> Finite(0)]
\* an object without keys, and req before a request arrived: req.body is left
\* out or one object, req.query and req.params are objects
EmptyObject == [k \in {} |-> [type |-> "string", chars |-> <<>>]]
NoReq == [body |-> <<>>, query |-> EmptyObject, params |-> EmptyObject]
NoRequest == [method |-> "", originalUrl |-> "", body |-> "none", query |-> NoQuery]
Idle ==
    [op |-> "", pc |-> "idle", userData |-> NoBody, existingUser |-> {},
     encryptedPassword |-> <<>>, outcome |-> Pending,
     next |-> <<>>, res |-> NoResponse, mail |-> "none",
     postData |-> NoPost, authorization |-> <<>>, decoded |-> NoPayload,
     user |-> {}, before |-> {}, newUser |-> {}, request |-> NoRequest,
     paging |-> NoPaging, sent |-> NoReq, req |-> NoReq, handled |-> <<>>]

\* register, up to its first await: the request arrives, findUserByEmail reads
\* the table, and a taken email ends the call with ApiError 409.
RegisterFindUser(r, userData) ==
    /\ calls[r].pc = "idle"
    /\ LET existingUser == findUserByEmail(userData.email) IN
        calls' = [calls EXCEPT ![r] =
            IF existingUser # {}
            THEN Controller([@ EXCEPT !.op = "register", !.userData = userData,
                                      !.existingUser = existingUser],
                            Throw(ApiError(409, "Email already in use")), 201)
            ELSE [@ EXCEPT !.op = "register", !.pc = "hash", !.userData = userData]]
    /\ UNCHANGED <<Users, nextId>>
    /\ UNCHANGED siteVars
    /\ UNCHANGED deployVars
    /\ UNCHANGED postVars

\* const encryptedPassword = await bcrypt.hash(userData.password, 10)
RegisterHash(r, salt) ==
    /\ calls[r].pc = "hash"
    /\ calls' = [calls EXCEPT ![r] =
            [@ EXCEPT !.pc = "createUser",
                      !.encryptedPassword =
                            bcryptHash(calls[r].userData.password, SaltRounds, salt)]]
    /\ UNCHANGED <<Users, nextId>>
    /\ UNCHANGED siteVars
    /\ UNCHANGED deployVars
    /\ UNCHANGED postVars

\* register handing the password to createUser as it came.
CreateUserValuesPlain(call) ==
    [name |-> call.userData.name,
     email |-> call.userData.email,
     password |-> call.userData.password]

\* The values register hands to userRepository.createUser.
CreateUserValues(call) ==
    [name |-> call.userData.name,
     email |-> call.userData.email,
     password |-> call.encryptedPassword]

\* What register returns once the user is created: the step of the tutorial
\* that adds the password hashing returns userResponse, the row without its
\* password; the steps that add the welcome email end in "return newUser".
RegisterResult(row) ==
    IF revision.auth = "base" THEN WithoutPassword(row) ELSE row

\* emailService.sendWelcomeEmail(...).catch(err => console.error(...)), not
\* awaited: register goes on while the email is on its way. The Nodemailer
\* variant awaits the email instead: there register stops at the await.
StartWelcomeEmail(call) ==
    IF revision.auth = "resend" THEN [call EXCEPT !.mail = "pending"] ELSE call

\* await userRepository.createUser({...}) and the rest of register: User.create
\* validates the values, then runs the INSERT, which the unique constraint on
\* email may reject; the sequence value is used up by every INSERT that runs.
RegisterCreateUser(r) ==
    /\ calls[r].pc = "createUser"
    /\ LET values == CreateUserValues(calls[r])
           invalid == UserValidationErrors(values)
           row == NewRow(values)
       IN  IF invalid # <<>>
           THEN /\ calls' = [calls EXCEPT ![r] =
                        Controller(@, Throw(SequelizeError(
                                        "SequelizeValidationError", invalid)), 201)]
                /\ UNCHANGED <<Users, nextId>>
           ELSE IF ViolatesUnique(row)
           THEN /\ calls' = [calls EXCEPT ![r] =
                        Controller(@, Throw(SequelizeError(
                                        "SequelizeUniqueConstraintError",
                                        <<"email must be unique">>)), 201)]
                /\ nextId' = nextId + 1
                /\ UNCHANGED Users
           ELSE /\ Users' = Users \cup {row}
                /\ nextId' = nextId + 1
                /\ calls' = [calls EXCEPT ![r] =
                        IF revision.auth = "nodemailer"
                        THEN [@ EXCEPT !.pc = "sendWelcomeEmail", !.mail = "pending",
                                       !.newUser = {row}]
                        ELSE Controller([StartWelcomeEmail(@) EXCEPT !.newUser = {row}],
                                        Return(RegisterResult(row)), 201)]
    /\ UNCHANGED siteVars
    /\ UNCHANGED deployVars
    /\ UNCHANGED postVars

InitAuthVars ==
    /\ Users = {}
    /\ nextId = 1
    /\ calls = [r \in Requests |-> Idle]

\* The application as the Authentication chapter leaves it, NODE_ENV not set.
BaseRevision == [auth |-> "base", repository |-> "sequelize", routes |-> "public"]
InitDeployVars ==
    /\ config = ConfigOf("development")
    /\ revision = BaseRevision

\* An empty Posts table and a server that has just started.
InitPostVars ==
    /\ Posts = {}
    /\ nextPostId = 1
    /\ fakeDb = <<>>
    /\ now = 1
    /\ restarts = 0
    /\ acked = {}

NextAuth ==
    \/ \E r \in Requests, userData \in RegisterBodies : RegisterFindUser(r, userData)
    \/ \E r \in Requests, salt \in Salts : RegisterHash(r, salt)
    \/ \E r \in Requests : RegisterCreateUser(r)

\* The tutorial's API serving register requests.
InitAuth ==
    /\ featureList = FeatureList
    /\ rendered = <<>>
    /\ InitAuthVars
    /\ config \in {ConfigOf(env) : env \in Envs}
    /\ revision = BaseRevision
    /\ InitPostVars

SpecAuth == InitAuth /\ [][NextAuth]_vars

-----------------------------------------------------------------------------
(* The repository as a whole: the site with either revision of the table,  *)
(* and the API.                                                            *)

Init ==
    /\ featureList \in {FeatureList, FeatureListDoc}
    /\ rendered = <<>>
    /\ InitAuthVars
    /\ InitDeployVars
    /\ InitPostVars

Next == Render \/ NextAuth

Spec == Init /\ [][Next]_vars

-----------------------------------------------------------------------------
(* The renderer as a function of its data table: every FeatureItem[] value *)
(* up to MaxItems entries.                                                 *)

TestItem == [title |-> "solve the chaos", Svg |-> "compass.svg", description |-> <<>>]
Items == {Item1, Item2, Item3, TestItem}

InitRenderer ==
    /\ featureList \in {Array(s) : s \in BoundedSeq(Items, MaxItems)}
    /\ rendered = <<>>
    /\ InitAuthVars
    /\ InitDeployVars
    /\ InitPostVars

NextRenderer == Render

SpecRenderer == InitRenderer /\ [][NextRenderer]_vars

\* The same, with the table possibly not bound at all (the component is
\* JavaScript once built: nothing checks FeatureItem[] when it runs).
InitRendererUntyped ==
    /\ featureList \in {Array(s) : s \in BoundedSeq(Items, MaxItems)} \cup {Undefined}
    /\ rendered = <<>>
    /\ InitAuthVars
    /\ InitDeployVars
    /\ InitPostVars

SpecRendererUntyped == InitRendererUntyped /\ [][NextRenderer]_vars

-----------------------------------------------------------------------------
(* Properties of the renderer.                                             *)

Outputs == {rendered[r] : r \in 1..Len(rendered)}

\* C1: a table of n items renders exactly n Feature blocks inside the row, and
\* the i-th block is built from the i-th item (its key is i counted from 0, its
\* icon, heading and paragraph are that item's): same order, none dropped, none
\* duplicated.
C1_BlocksFollowItems ==
    \A out \in Outputs :
        /\ Row(out).className = "row"
        /\ Len(Blocks(out)) = Len(featureList.elems)
        /\ \A i \in 1..Len(Blocks(out)) :
            /\ Blocks(out)[i].key = i - 1
            /\ IconOf(Blocks(out)[i]).type = featureList.elems[i].Svg
            /\ HeadingOf(Blocks(out)[i]).children = featureList.elems[i].title
            /\ ParagraphOf(Blocks(out)[i]).children = featureList.elems[i].description

C1_Witness ==
    /\ rendered # <<>>
    /\ Len(featureList.elems) = MaxItems
    /\ featureList.elems[1] # featureList.elems[MaxItems]

\* C2: the heading of every rendered block is an h3 whose text is the item's
\* title, character for character.
C2_HeadingIsTitle ==
    \A out \in Outputs :
        \A i \in 1..Len(Blocks(out)) :
            /\ HeadingOf(Blocks(out)[i]).type = "h3"
            /\ HeadingOf(Blocks(out)[i]).children = featureList.elems[i].title

C2_Witness ==
    \E out \in Outputs :
        \E i, j \in 1..Len(Blocks(out)) :
            /\ HeadingOf(Blocks(out)[i]).children = "Solve the Chaos"
            /\ HeadingOf(Blocks(out)[j]).children = "solve the chaos"

\* C3: the paragraph of every rendered block holds the item's description, its
\* children unmodified.
C3_ParagraphIsDescription ==
    \A out \in Outputs :
        \A i \in 1..Len(Blocks(out)) :
            /\ ParagraphOf(Blocks(out)[i]).type = "p"
            /\ ParagraphOf(Blocks(out)[i]).children = featureList.elems[i].description

C3_Witness ==
    \E out \in Outputs :
        \E i, j \in 1..Len(Blocks(out)) :
            /\ ParagraphOf(Blocks(out)[i]).children = Item3.description
            /\ ParagraphOf(Blocks(out)[j]).children = <<>>

C5_RendersAgree ==
    \A r1, r2 \in 1..Len(rendered) : rendered[r1] = rendered[r2]

C5_Witness ==
    /\ Len(rendered) >= 2
    /\ Len(featureList.elems) >= 2

\* C6: a render leaves the table as it was (same length, order and entries),
\* keeps the markup of the earlier renders and leaves the Users table and the
\* register calls alone: it adds its own markup and nothing else.
C6_RenderOnlyAddsMarkup ==
    [][Len(rendered') > Len(rendered) =>
            /\ featureList' = featureList
            /\ Len(rendered') = Len(rendered) + 1
            /\ SubSeq(rendered', 1, Len(rendered)) = rendered
            /\ UNCHANGED authVars
            /\ UNCHANGED deployVars
            /\ UNCHANGED postVars]_vars

C6_Witness ==
    /\ rendered # <<>>
    /\ Len(featureList.elems) >= 2
    /\ featureList.elems[1] # featureList.elems[2]

\* C8: every block holds the icon with role "img" (the ARIA image role), an h3
\* with the title and a p with the description, and every block has the one
\* column class "col col--4" (4 of the grid's 12 columns, a third of the row),
\* whatever the item holds and however many items there are.
C8_BlockShape ==
    \A out \in Outputs :
        \A i \in 1..Len(Blocks(out)) :
            LET el == Blocks(out)[i].element IN
            /\ Len(el.children) = 2
            /\ Len(el.children[1].children) = 1
            /\ Len(el.children[2].children) = 2
            /\ IconOf(Blocks(out)[i]).role = "img"
            /\ IconOf(Blocks(out)[i]).type = featureList.elems[i].Svg
            /\ HeadingOf(Blocks(out)[i]) = [type |-> "h3", children |-> featureList.elems[i].title]
            /\ ParagraphOf(Blocks(out)[i]) = [type |-> "p", children |-> featureList.elems[i].description]
            /\ el.className = <<"col col--4">>

C8_Witness ==
    \E out \in Outputs :
        /\ Len(Blocks(out)) = MaxItems
        /\ \E i \in 1..Len(Blocks(out)) : ParagraphOf(Blocks(out)[i]).children = <<>>
        /\ \E i \in 1..Len(Blocks(out)) : ParagraphOf(Blocks(out)[i]).children # <<>>

-----------------------------------------------------------------------------
(* Properties of the site and of the API.                                  *)

Titles(list) == [i \in 1..Len(list.elems) |-> list.elems[i].title]

\* C7: in every state the FeatureList table holds exactly three entries, titled
\* 'Solve the Chaos', 'Production Focus' and 'End-to-End Backend' in this
\* order, none with an empty title: nothing that runs creates, updates or
\* deletes an entry.
C7_FeatureListFixed ==
    /\ featureList.kind = "array"
    /\ Len(featureList.elems) = 3
    /\ Titles(featureList) = <<"Solve the Chaos", "Production Focus", "End-to-End Backend">>
    /\ \A i \in 1..Len(featureList.elems) : featureList.elems[i].title # ""

C7_Witness ==
    /\ Len(rendered) = MaxRenders
    /\ Users # {}
    /\ featureList = FeatureList

\* C9: every stored user's password column differs from the plain-text password
\* of every register request, and is the bcrypt hash, with 10 salt rounds, of
\* the password sent by the request that created the user.
C9_PasswordsStoredHashed ==
    \A u \in Users :
        /\ \A r \in Requests : u.password # calls[r].userData.password
        /\ u.password \notin Passwords
        /\ \E r \in Requests, salt \in Salts :
            /\ calls[r].outcome = Return(WithoutPassword(u))
            /\ u.password = bcryptHash(calls[r].userData.password, SaltRounds, salt)

C9_Witness ==
    /\ Cardinality(Users) >= 2
    /\ \E u, v \in Users :
        /\ u # v
        /\ u.password[4][4] = v.password[4][4]

\* C10: in every interleaving of register requests, no two rows of the Users
\* table have the same email.
C10_EmailsUnique ==
    \A u, v \in Users : u.email = v.email => u = v

\* Two requests for the same new email both passed the email check; one
\* created the user and the INSERT of the other was rejected.
C10_Witness ==
    \E r1, r2 \in Requests :
        /\ r1 # r2
        /\ calls[r1].userData.email = calls[r2].userData.email
        /\ calls[r1].outcome.kind = "return"
        /\ calls[r2].outcome.kind = "throw"
        /\ calls[r2].outcome.payload.name = "SequelizeUniqueConstraintError"

-----------------------------------------------------------------------------
(* Claims about the register service, the error handler and the wrapper    *)

\* A register call that ended because its email was taken: by the check of
\* findUserByEmail, or by the unique constraint when the INSERT ran.
RejectedAsTaken(call) ==
    /\ call.op = "register"
    /\ call.pc = "done"
    /\ call.outcome.kind = "throw"
    /\ call.outcome.payload.name \in {"ApiError", "SequelizeUniqueConstraintError"}

\* C11: a register request for an email that is already taken always fails
\* with ApiError 409 'Email already in use', in every interleaving of register
\* requests. Refuted: of two requests for the same new email that both pass
\* findUserByEmail, the one whose INSERT loses ends with the database's
\* SequelizeUniqueConstraintError, which is not an ApiError.
C11_TakenEmailFailsWith409 ==
    \A r \in Requests :
        RejectedAsTaken(calls[r])
            => calls[r].outcome.payload = ApiError(409, "Email already in use")

\* C15: outside development, every error that is not operational is answered
\* with status 500 and the fixed body {status: 'error', message: 'Something
\* went very wrong!'}.
C15_NonOperationalHidden ==
    config.app.env # "development" =>
        \A r \in Requests :
            (/\ calls[r].pc = "done"
             /\ calls[r].outcome.kind = "throw"
             /\ ~calls[r].outcome.payload.isOperational)
                => calls[r].res =
                     Json(500, [status |-> "error", message |-> "Something went very wrong!"])

\* In production the INSERT of a request was rejected by the unique constraint,
\* and the answer carries neither the name nor the message of that error.
C15_Witness ==
    /\ config.app.env = "production"
    /\ \E r \in Requests :
        /\ calls[r].pc = "done"
        /\ calls[r].outcome.kind = "throw"
        /\ calls[r].outcome.payload.name = "SequelizeUniqueConstraintError"
        /\ calls[r].res.statusCode = 500
        /\ calls[r].res.body.message # calls[r].outcome.payload.message

\* the calls of next that the wrapper made during a call
ByWrapper(call) ==
    LET IsWrapper(n) == n.from = "catchAsync" IN SelectSeq(call.next, IsWrapper)

\* C16: an error raised by a handler wrapped by catchAsync is passed to next
\* exactly once and with that error; when the handler completes without error
\* the wrapper does not call next.
C16_ErrorsReachNextOnce ==
    \A r \in Requests :
        calls[r].pc = "done" =>
            /\ calls[r].outcome.kind = "throw"
                => ByWrapper(calls[r]) = <<NextCall("catchAsync", <<calls[r].outcome.payload>>)>>
            /\ calls[r].outcome.kind = "return"
                => ByWrapper(calls[r]) = <<>>

\* One handler threw and another one completed.
C16_Witness ==
    \E r1, r2 \in Requests :
        /\ calls[r1].pc = "done"
        /\ calls[r2].pc = "done"
        /\ calls[r1].outcome.kind = "throw"
        /\ Len(calls[r1].next) = 1
        /\ calls[r2].outcome.kind = "return"
        /\ calls[r2].res.statusCode = 201

-----------------------------------------------------------------------------
(* src/services/auth.service.js: login; src/services/email.service.js      *)

\* bcrypt.compare(s, hash): hash s again with the cost and salt kept in hash
bcryptCompare(s, hash) == hash = bcryptHash(s, hash[2], hash[3])

\* the seconds in a time span as jsonwebtoken reads it; "1d" is the one used
Seconds(span) == IF span = "1d" THEN 86400 ELSE 0

\* jwt.sign(payload, secretOrPrivateKey, options): what the token is made from;
\* exp is the second the token expires at, iat + the span of expiresIn
jwtSign(payload, secret, options) ==
    [payload |-> payload, secret |-> secret,
     exp |-> (now \div 1000) + Seconds(options.expiresIn)]

\* an answer that tells a missing user apart
UserNotFoundError == ApiError(404, "User not found")

\* if (!user) throw new ApiError(401, "Incorrect email or password")
UnknownEmailError == ApiError(401, "Incorrect email or password")

\* if (!isPasswordMatch) throw new ApiError(401, "Incorrect email or password")
WrongPasswordError == ApiError(401, "Incorrect email or password")

\* the bodies of POST /api/v1/auth/login: { email, password }
LoginBodies ==
    [name : {""}, email : {John, Jane}, password : Passwords]

\* login up to its first await: const user = await findUserByEmail(email)
LoginFindUser(r, body) ==
    /\ calls[r].pc = "idle"
    /\ LET user == findUserByEmail(body.email) IN
        calls' = [calls EXCEPT ![r] =
            IF user = {}
            THEN Controller([@ EXCEPT !.op = "login", !.userData = body],
                            Throw(UnknownEmailError), 200)
            ELSE [@ EXCEPT !.op = "login", !.pc = "compare", !.userData = body,
                           !.existingUser = user]]
    /\ UNCHANGED <<Users, nextId>>
    /\ UNCHANGED siteVars
    /\ UNCHANGED deployVars
    /\ UNCHANGED postVars

\* return { user: userResponse, token }, userResponse being user.toJSON()
\* with its password deleted
LoginResult(user) ==
    [user |-> WithoutPassword(user),
     token |-> jwtSign([id |-> user.id, email |-> user.email], config.jwt.secret,
                       [expiresIn |-> config.jwt.expiresIn])]

\* await bcrypt.compare(password, user.password) and the rest of login
LoginCompare(r) ==
    /\ calls[r].pc = "compare"
    /\ LET user == CHOOSE u \in calls[r].existingUser : TRUE
           isPasswordMatch == bcryptCompare(calls[r].userData.password, user.password)
       IN  calls' = [calls EXCEPT ![r] =
               IF ~isPasswordMatch
               THEN Controller(@, Throw(WrongPasswordError), 200)
               ELSE Controller(@, Return(LoginResult(user)), 200)]
    /\ UNCHANGED <<Users, nextId>>
    /\ UNCHANGED siteVars
    /\ UNCHANGED deployVars
    /\ UNCHANGED postVars

\* How resend.emails.send ended: it resolved with data, it resolved with an
\* error, or the promise was rejected.
EmailResults == {"sent", "error", "rejected"}

\* A register that is failed by a rejected welcome email.
WelcomeEmailEffectFailing(call, result) ==
    IF result = "rejected"
    THEN [call EXCEPT !.mail = result,
                      !.outcome = Throw(ApiError(500, "Email could not be sent"))]
    ELSE [call EXCEPT !.mail = result]

\* sendEmail logs an error of Resend and throws nothing; a rejection of
\* sendWelcomeEmail is logged by the .catch that register attached
WelcomeEmailEffect(call, result) == [call EXCEPT !.mail = result]

\* the welcome email of a finished register settles
WelcomeEmailSettles(r, result) ==
    /\ calls[r].mail = "pending"
    /\ calls' = [calls EXCEPT ![r] = WelcomeEmailEffect(@, result)]
    /\ UNCHANGED <<Users, nextId>>
    /\ UNCHANGED siteVars
    /\ UNCHANGED deployVars
    /\ UNCHANGED postVars

\* John Doe registered earlier with the password of the tutorial's test.
SeedRow ==
    [id |-> 1, name |-> "John Doe", email |-> John,
     password |-> bcryptHash(<<"supersecretpassword">>, SaltRounds, "saltA")]

\* the auth service after the email chapter (Resend)
ResendRevision == [auth |-> "resend", repository |-> "sequelize", routes |-> "protected"]

InitApi ==
    /\ featureList = FeatureList
    /\ rendered = <<>>
    /\ Users \in {{}, {SeedRow}}
    /\ nextId = Cardinality(Users) + 1
    /\ calls = [r \in Requests |-> Idle]
    /\ config \in {ConfigOf(env) : env \in Envs}
    /\ revision \in {BaseRevision, ResendRevision}
    /\ InitPostVars

NextApi ==
    \/ \E r \in Requests, userData \in RegisterBodies : RegisterFindUser(r, userData)
    \/ \E r \in Requests, salt \in Salts : RegisterHash(r, salt)
    \/ \E r \in Requests : RegisterCreateUser(r)
    \/ \E r \in Requests, body \in LoginBodies : LoginFindUser(r, body)
    \/ \E r \in Requests : LoginCompare(r)
    \/ \E r \in Requests, result \in EmailResults : WelcomeEmailSettles(r, result)

SpecApi == InitApi /\ [][NextApi]_vars

\* C12: the value returned by a successful register and the user object
\* returned by a successful login never contain a password field. Refuted for
\* register: the register of the email chapter ends in "return newUser", the
\* row as created, with the hash in its password field.
C12_NoPasswordReturned ==
    \A r \in Requests :
        (calls[r].pc = "done" /\ calls[r].outcome.kind = "return") =>
            /\ calls[r].op = "register" => "password" \notin DOMAIN calls[r].outcome.payload
            /\ calls[r].op = "login" => "password" \notin DOMAIN calls[r].outcome.payload.user

\* What holds of C12: login never returns the password, and neither does the
\* register of the Authentication chapter.
C12_LoginAndFirstRegisterHidePassword ==
    \A r \in Requests :
        (calls[r].pc = "done" /\ calls[r].outcome.kind = "return") =>
            /\ (calls[r].op = "register" /\ revision = BaseRevision)
                => "password" \notin DOMAIN calls[r].outcome.payload
            /\ calls[r].op = "login" => "password" \notin DOMAIN calls[r].outcome.payload.user

\* a register and a login both succeeded
C12_Witness ==
    \E r1, r2 \in Requests :
        /\ calls[r1].op = "register"
        /\ calls[r1].outcome.kind = "return"
        /\ calls[r2].op = "login"
        /\ calls[r2].outcome.kind = "return"
        /\ calls[r2].res.statusCode = 200

\* a login that failed
LoginFailed(call) ==
    call.op = "login" /\ call.pc = "done" /\ call.outcome.kind = "throw"

\* C13: login fails with the same error, ApiError 401 'Incorrect email or
\* password', for an email of no user and for a wrong password, and any two
\* failed logins get the same response.
C13_LoginFailuresAlike ==
    \A r1, r2 \in Requests :
        (LoginFailed(calls[r1]) /\ LoginFailed(calls[r2])) =>
            /\ calls[r1].outcome.payload = ApiError(401, "Incorrect email or password")
            /\ calls[r1].res.statusCode = 401
            /\ calls[r1].res = calls[r2].res

\* One login failed for an email of no user, another for a wrong password.
C13_Witness ==
    \E r1, r2 \in Requests :
        /\ LoginFailed(calls[r1])
        /\ LoginFailed(calls[r2])
        /\ calls[r1].existingUser = {}
        /\ calls[r2].existingUser # {}

\* C20: in the Resend variant, once createUser succeeded, register has
\* returned the new user with 201 and the user is stored, whatever has become
\* of the welcome email: pending for ever, sent, refused by Resend or rejected.
C20_RegisterIgnoresEmail ==
    \A r \in Requests :
        calls[r].mail # "none" =>
            /\ calls[r].pc = "done"
            /\ calls[r].outcome.kind = "return"
            /\ calls[r].outcome.payload \in Users
            /\ calls[r].outcome.payload.email = calls[r].userData.email
            /\ calls[r].res.statusCode = 201

\* One register returned while its email is still on its way, and the email
\* of another one was rejected.
C20_Witness ==
    \E r1, r2 \in Requests :
        /\ calls[r1].mail = "pending"
        /\ calls[r1].outcome.kind = "return"
        /\ calls[r2].mail = "rejected"
        /\ calls[r2].outcome.kind = "return"

-----------------------------------------------------------------------------
(* src/middlewares/auth.middleware.js, src/services/post.service.js,       *)
(* src/repositories/post.repository.js, src/controllers/post.controller.js *)

\* last millisecond the clock of the server reaches
MaxClock == 2
\* number of times the server is stopped and started again
MaxRestarts == 1

\* an error thrown by a library: a name and a message, none of ApiError's fields
LibraryError(name, message) ==
    [name |-> name, statusCode |-> 0, status |-> "", message |-> message,
     isOperational |-> FALSE, errors |-> <<>>]

\* jwt.verify(token, secretOrPublicKey): the payload, or the error thrown; the
\* signature is checked before the expiry
jwtVerify(token, secret) ==
    IF token.secret # secret
    THEN Throw(LibraryError("JsonWebTokenError", "invalid signature"))
    ELSE IF (now \div 1000) >= token.exp
    THEN Throw(LibraryError("TokenExpiredError", "jwt expired"))
    ELSE Return(token.payload)

\* credentials that are no token
NoToken == [payload |-> NoPayload, secret |-> "", exp |-> 0]

\* the token login gives John now
JohnsToken ==
    jwtSign([id |-> SeedRow.id, email |-> SeedRow.email], config.jwt.secret,
            [expiresIn |-> config.jwt.expiresIn])

\* The tokens a client may hold: the one login gives John now, one signed with
\* another secret, one of a day ago, and one of a user that is not stored.
Tokens ==
    LET options == [expiresIn |-> config.jwt.expiresIn]
        john == [id |-> SeedRow.id, email |-> SeedRow.email]
    IN  {JohnsToken,
         jwtSign(john, "another-secret", options),
         [jwtSign(john, config.jwt.secret, options) EXCEPT !.exp = 0],
         jwtSign([id |-> 2, email |-> Jane], config.jwt.secret, options)}

\* the values of the Authorization header: none, Basic credentials, Bearer tokens
AuthorizationHeaders ==
    {<<>>, <<"Basic", NoToken>>} \cup {<<"Bearer", token>> : token \in Tokens}

\* A check of the header that only sees a missing header.
NoHeader(authHeader) == authHeader = <<>>

\* !authHeader || !authHeader.startsWith("Bearer ")
NoBearer(authHeader) == authHeader = <<>> \/ authHeader[1] # "Bearer"

\* A catch block that reports every error of jwt.verify as an invalid token.
AuthenticateCatchAllInvalid(error) ==
    IF error.name \in {"JsonWebTokenError", "TokenExpiredError"}
    THEN ApiError(401, "Unauthorized: Invalid token")
    ELSE error

\* the catch block of authenticate: the error it hands to next
AuthenticateCatch(error) ==
    IF error.name = "JsonWebTokenError"
    THEN ApiError(401, "Unauthorized: Invalid token")
    ELSE IF error.name = "TokenExpiredError"
    THEN ApiError(401, "Unauthorized: Token expired")
    ELSE error

\* authenticate ends the request: next(err), and globalErrorHandler answers
Rejected(call, error) ==
    LET err == AuthenticateCatch(error) IN
    [call EXCEPT !.pc = "done",
                 !.next = @ \o <<NextCall("authenticate", <<err>>)>>,
                 !.res = globalErrorHandler(err)]

\* the body of the tutorial's own test
TestPost ==
    [title |-> <<"Real Database Post">>, content |-> <<"This is saved in Postgres!">>]

\* the bodies of POST /api/v1/posts: title missing, empty or given, content
\* given or missing; none gives a status
PostBodies ==
    {[title |-> <<>>, content |-> <<"This is saved in Postgres!">>],
     [title |-> <<"">>, content |-> <<"This is saved in Postgres!">>],
     TestPost,
     [title |-> <<"Real Database Post">>, content |-> <<>>]}

\* The requests sent to POST /api/v1/posts: a header, which only the
\* protected route reads, and a body; the body varies for the requests that
\* get past authenticate, the others carry the body of the test.
PostRequests ==
    IF revision.routes = "public"
    THEN {<<>>} \X PostBodies
    ELSE (AuthorizationHeaders \X {TestPost}) \cup ({<<"Bearer", JohnsToken>>} \X PostBodies)

\* router.post("/", authenticate, postController.createPost), and before the
\* route was protected router.post("/", postController.createPost)
PostPosts(r, authorization, postData) ==
    /\ calls[r].pc = "idle"
    /\ calls' = [calls EXCEPT ![r] =
            [@ EXCEPT !.op = "createPost", !.postData = postData,
                      !.authorization = authorization,
                      !.pc = IF revision.routes = "protected"
                             THEN "authenticate" ELSE "controller"]]
    /\ UNCHANGED <<Users, nextId>>
    /\ UNCHANGED siteVars
    /\ UNCHANGED deployVars
    /\ UNCHANGED postVars

\* authenticate up to its await: the header is read and the token verified
Authenticate(r) ==
    /\ calls[r].pc = "authenticate"
    /\ LET authHeader == calls[r].authorization IN
        calls' = [calls EXCEPT ![r] =
            IF NoBearer(authHeader)
            THEN Rejected(@, ApiError(401, "Unauthorized: No token provided"))
            ELSE LET decoded == jwtVerify(authHeader[2], config.jwt.secret) IN
                 IF decoded.kind = "throw"
                 THEN Rejected(@, decoded.payload)
                 ELSE [@ EXCEPT !.pc = "findByPk", !.decoded = decoded.payload]]
    /\ UNCHANGED <<Users, nextId>>
    /\ UNCHANGED siteVars
    /\ UNCHANGED deployVars
    /\ UNCHANGED postVars

\* const user = await User.findByPk(decoded.id) and the rest of authenticate
AuthenticateFindUser(r) ==
    /\ calls[r].pc = "findByPk"
    /\ LET user == {u \in Users : u.id = calls[r].decoded.id} IN
        calls' = [calls EXCEPT ![r] =
            IF user = {}
            THEN Rejected(@, ApiError(401, "Unauthorized: User not found"))
            ELSE [@ EXCEPT !.pc = "controller", !.user = user,
                           !.next = @ \o <<NextCall("authenticate", <<>>)>>]]
    /\ UNCHANGED <<Users, nextId>>
    /\ UNCHANGED siteVars
    /\ UNCHANGED deployVars
    /\ UNCHANGED postVars

\* A check that only sees a missing title, not an empty one.
TitleUndefined(postData) == postData.title = <<>>

\* !postData.title: the title is missing or the empty string
HasNoTitle(postData) == postData.title = <<>> \/ postData.title[1] = ""

\* const dataToSave = { title, content, status: "published" }
DataToSave(postData) ==
    [title |-> postData.title[1], content |-> postData.content,
     status |-> <<"published">>]

\* the post the first service made itself, before there was a repository
NewPost(postData) ==
    [id |-> now, title |-> postData.title[1], content |-> postData.content,
     createdAt |-> now, status |-> "published"]

\* The answer 201 of a finished createPost adds its post to what the clients
\* were told is created.
Acknowledged(call) ==
    IF call.res.statusCode = 201 THEN acked \cup {call.outcome.payload} ELSE acked

\* postService.createPost up to its await: the title is checked, the data to
\* save are prepared and the repository is called
CreatePost(r) ==
    /\ calls[r].pc = "controller"
    /\ LET postData == calls[r].postData
           after == IF HasNoTitle(postData)
                    THEN Controller(calls[r], Throw(ApiError(400, "Title is required")), 201)
                    ELSE IF revision.repository = "none"
                    THEN Controller(calls[r], Return(NewPost(postData)), 201)
                    ELSE [calls[r] EXCEPT !.pc = "repository"]
       IN  /\ calls' = [calls EXCEPT ![r] = after]
           /\ acked' = Acknowledged(after)
    /\ UNCHANGED <<Posts, nextPostId, fakeDb, now, restarts>>
    /\ UNCHANGED <<Users, nextId>>
    /\ UNCHANGED siteVars
    /\ UNCHANGED deployVars

\* the columns of Post.init: a status that is not given gets the defaultValue
PostDefaults(values) ==
    [title |-> values.title, content |-> values.content,
     status |-> IF values.status = <<>> THEN "draft" ELSE values.status[1]]

\* the validation of Post.init, run by Post.create before the INSERT
PostValidationErrors(values) ==
    (IF values.title = "" THEN <<"Title is required">> ELSE <<>>)
        \o (IF values.content = <<>> THEN <<"Post.content cannot be null">> ELSE <<>>)
        \o (IF values.status \notin {"draft", "published", "archived"}
            THEN <<"Validation isIn on status failed">> ELSE <<>>)

\* the row Post.create inserts: id from the sequence, the timestamps set
PostRow(values) ==
    [id |-> nextPostId, title |-> values.title, content |-> values.content,
     status |-> values.status, createdAt |-> now, updatedAt |-> now]

\* const newRecord = { id: Date.now(), ...data, createdAt, updatedAt }
NewRecord(data) ==
    [id |-> now, title |-> data.title, content |-> data.content,
     status |-> data.status[1], createdAt |-> now, updatedAt |-> now]

\* await postRepository.createPost(dataToSave) and the rest of the service and
\* the controller: _fakeDb.push(newRecord) in the first repository,
\* Post.create(data) in the one on Sequelize
RepositoryCreatePost(r) ==
    /\ calls[r].pc = "repository"
    /\ LET data == DataToSave(calls[r].postData)
           values == PostDefaults(data)
           invalid == PostValidationErrors(values)
           after == IF revision.repository = "memory"
                    THEN Controller(calls[r], Return(NewRecord(data)), 201)
                    ELSE IF invalid # <<>>
                    THEN Controller(calls[r], Throw(SequelizeError(
                                        "SequelizeValidationError", invalid)), 201)
                    ELSE Controller(calls[r], Return(PostRow(values)), 201)
       IN  /\ calls' = [calls EXCEPT ![r] = after]
           /\ acked' = Acknowledged(after)
           /\ IF revision.repository = "memory"
              THEN /\ fakeDb' = Append(fakeDb, NewRecord(data))
                   /\ UNCHANGED <<Posts, nextPostId>>
              ELSE IF invalid # <<>>
              THEN UNCHANGED <<Posts, nextPostId, fakeDb>>
              ELSE /\ Posts' = Posts \cup {PostRow(values)}
                   /\ nextPostId' = nextPostId + 1
                   /\ UNCHANGED fakeDb
    /\ UNCHANGED <<now, restarts>>
    /\ UNCHANGED <<Users, nextId>>
    /\ UNCHANGED siteVars
    /\ UNCHANGED deployVars

\* router.get("/", postController.getPosts): the route exists once the
\* repository is on Sequelize; the handler runs up to await Post.findAll()
GetPosts(r) ==
    /\ calls[r].pc = "idle"
    /\ revision.repository = "sequelize"
    /\ calls' = [calls EXCEPT ![r] =
            [@ EXCEPT !.op = "getPosts", !.pc = "findAll", !.before = acked]]
    /\ UNCHANGED <<Users, nextId>>
    /\ UNCHANGED siteVars
    /\ UNCHANGED deployVars
    /\ UNCHANGED postVars

\* A repository that reads the array of the process instead of the table.
findAllPostsFromMemory == {fakeDb[i] : i \in 1..Len(fakeDb)}

\* const posts = await Post.findAll(): the rows of the table, in no stated order
findAllPosts == Posts

\* Post.findAll() answers; the service and the controller pass the rows on
FindAllPosts(r) ==
    /\ calls[r].pc = "findAll"
    /\ calls' = [calls EXCEPT ![r] = Controller(@, Return(findAllPosts), 200)]
    /\ UNCHANGED <<Users, nextId>>
    /\ UNCHANGED siteVars
    /\ UNCHANGED deployVars
    /\ UNCHANGED postVars

\* a millisecond passes
Tick ==
    /\ now < MaxClock
    /\ now' = now + 1
    /\ UNCHANGED <<Posts, nextPostId, fakeDb, restarts, acked>>
    /\ UNCHANGED authVars
    /\ UNCHANGED siteVars
    /\ UNCHANGED deployVars

\* Ctrl+C and npm run dev: the requests in flight are dropped and the memory
\* of the process is lost; the database keeps its tables and sequences.
Restart ==
    /\ restarts < MaxRestarts
    /\ restarts' = restarts + 1
    /\ calls' = [r \in Requests |-> Idle]
    /\ fakeDb' = <<>>
    /\ UNCHANGED <<Posts, nextPostId, now, acked>>
    /\ UNCHANGED <<Users, nextId>>
    /\ UNCHANGED siteVars
    /\ UNCHANGED deployVars

\* the post routes at each step of the tutorial before they are protected:
\* the service alone, the repository on an array, the repository on Sequelize
PostRevisions ==
    {[auth |-> "base", repository |-> "none", routes |-> "public"],
     [auth |-> "base", repository |-> "memory", routes |-> "public"],
     [auth |-> "base", repository |-> "sequelize", routes |-> "public"]}

\* the application once POST /api/v1/posts is behind authenticate
ProtectedRevision == [auth |-> "base", repository |-> "sequelize", routes |-> "protected"]

InitPosts ==
    /\ featureList = FeatureList
    /\ rendered = <<>>
    /\ Users = {SeedRow}
    /\ nextId = 2
    /\ calls = [r \in Requests |-> Idle]
    /\ config \in {ConfigOf("development"), ConfigOf("production")}
    /\ revision \in PostRevisions
    /\ InitPostVars

NextPosts ==
    \/ \E r \in Requests, request \in PostRequests : PostPosts(r, request[1], request[2])
    \/ \E r \in Requests : CreatePost(r)
    \/ \E r \in Requests : RepositoryCreatePost(r)
    \/ \E r \in Requests : GetPosts(r)
    \/ \E r \in Requests : FindAllPosts(r)
    \/ Tick
    \/ Restart

SpecPosts == InitPosts /\ [][NextPosts]_vars

\* The protected route alone: John Doe is registered, and requests to create
\* a post arrive with every kind of Authorization header.
InitProtected ==
    /\ featureList = FeatureList
    /\ rendered = <<>>
    /\ Users = {SeedRow}
    /\ nextId = 2
    /\ calls = [r \in Requests |-> Idle]
    /\ config \in {ConfigOf(env) : env \in Envs}
    /\ revision = ProtectedRevision
    /\ InitPostVars

NextProtected ==
    \/ \E r \in Requests, request \in PostRequests : PostPosts(r, request[1], request[2])
    \/ \E r \in Requests : Authenticate(r)
    \/ \E r \in Requests : AuthenticateFindUser(r)
    \/ \E r \in Requests : CreatePost(r)
    \/ \E r \in Requests : RepositoryCreatePost(r)

SpecProtected == InitProtected /\ [][NextProtected]_vars

-----------------------------------------------------------------------------
(* Claims about the post routes                                            *)

\* C14: a POST /api/v1/posts with no Authorization header, or with one that
\* does not start with 'Bearer ', never reaches postController.createPost:
\* authenticate passes ApiError 401 'Unauthorized: No token provided' to next
\* and the response is 401 with status 'fail'.
C14_NoTokenNoPost ==
    \A r \in Requests :
        (/\ revision.routes = "protected"
         /\ calls[r].op = "createPost"
         /\ calls[r].authorization \in {<<>>, <<"Basic", NoToken>>})
            => /\ calls[r].pc \in {"authenticate", "done"}
               /\ calls[r].outcome.kind = "none"
               /\ calls[r].pc = "done" =>
                    /\ calls[r].next = <<NextCall("authenticate",
                            <<ApiError(401, "Unauthorized: No token provided")>>)>>
                    /\ calls[r].res.statusCode = 401
                    /\ calls[r].res.body.status = "fail"
                    /\ calls[r].res.body.message = "Unauthorized: No token provided"

\* A request without header and one with Basic credentials were both refused,
\* and no post exists.
C14_Witness ==
    /\ revision.routes = "protected"
    /\ Posts = {}
    /\ \E r1, r2 \in Requests :
        /\ calls[r1].op = "createPost"
        /\ calls[r2].op = "createPost"
        /\ calls[r1].pc = "done"
        /\ calls[r2].pc = "done"
        /\ calls[r1].authorization = <<>>
        /\ calls[r2].authorization = <<"Basic", NoToken>>
        /\ calls[r1].postData.title = <<"Real Database Post">>

\* every post that is stored or was returned
StoredPosts == Posts \cup {fakeDb[i] : i \in 1..Len(fakeDb)} \cup acked

\* C17: a createPost call whose postData has no title, missing or empty,
\* throws ApiError 400 'Title is required' before the repository is called,
\* nothing is stored for it, and the client gets 400, 'fail', 'Title is
\* required'.
C17_TitleRequired ==
    /\ \A r \in Requests :
        (/\ calls[r].op = "createPost"
         /\ calls[r].postData.title \in {<<>>, <<"">>})
            => /\ calls[r].pc # "repository"
               /\ calls[r].outcome.kind # "return"
               /\ calls[r].outcome.kind = "throw" =>
                    /\ calls[r].outcome.payload = ApiError(400, "Title is required")
                    /\ calls[r].res.statusCode = 400
                    /\ calls[r].res.body.status = "fail"
                    /\ calls[r].res.body.message = "Title is required"
    /\ \A p \in StoredPosts : p.title # ""

\* One post was saved; then the calls with a missing and with an empty title
\* were answered 400 and the table still holds that one post.
C17_Witness ==
    /\ Cardinality(Posts) = 1
    /\ Posts = acked
    /\ \E r1, r2 \in Requests :
        /\ calls[r1].postData.title = <<>>
        /\ calls[r2].postData.title = <<"">>
        /\ calls[r1].res.statusCode = 400
        /\ calls[r2].res.statusCode = 400

C19_NewPostsAreDrafts ==
    \A r \in Requests :
        (/\ calls[r].op = "getPosts"
         /\ calls[r].pc = "done"
         /\ calls[r].outcome.kind = "return")
            => \A p \in calls[r].outcome.payload : p.status = "draft"

-----------------------------------------------------------------------------
(* Claims about authenticate and the first repository                      *)

\* the calls of next that authenticate made during a call
ByAuthenticate(call) ==
    LET IsAuthenticate(n) == n.from = "authenticate" IN SelectSeq(call.next, IsAuthenticate)

\* What authenticate has to hand to next for a header, read off the header
\* itself: nothing when the token is signed with the secret, not expired and of
\* a stored user, else the error of the first check that fails.
ExpectedNextArgs(authHeader) ==
    IF authHeader = <<>> \/ authHeader[1] # "Bearer"
    THEN <<ApiError(401, "Unauthorized: No token provided")>>
    ELSE IF authHeader[2].secret # config.jwt.secret
    THEN <<ApiError(401, "Unauthorized: Invalid token")>>
    ELSE IF authHeader[2].exp <= now \div 1000
    THEN <<ApiError(401, "Unauthorized: Token expired")>>
    ELSE IF \A u \in Users : u.id # authHeader[2].payload.id
    THEN <<ApiError(401, "Unauthorized: User not found")>>
    ELSE <<>>

\* C27: every invocation of authenticate calls next exactly once: without an
\* argument only when the token verifies and User.findByPk finds the user, and
\* then req.user is that user; otherwise with ApiError 401 and req.user unset,
\* the message telling an invalid token, an expired token and a user that is
\* not stored apart.
C27_AuthenticateCallsNextOnce ==
    \A r \in Requests :
        calls[r].op = "createPost" =>
            IF calls[r].pc \in {"authenticate", "findByPk"}
            THEN ByAuthenticate(calls[r]) = <<>> /\ calls[r].user = {}
            ELSE /\ Len(ByAuthenticate(calls[r])) = 1
                 /\ ByAuthenticate(calls[r])[1].args = ExpectedNextArgs(calls[r].authorization)
                 /\ IF ByAuthenticate(calls[r])[1].args = <<>>
                    THEN calls[r].user =
                            {u \in Users : u.id = calls[r].authorization[2].payload.id}
                    ELSE calls[r].user = {} /\ calls[r].outcome.kind = "none"

\* One request got through with req.user set to John Doe, and one with an
\* expired token was refused.
C27_Witness ==
    \E r1, r2 \in Requests :
        /\ calls[r1].user = {SeedRow}
        /\ calls[r1].res.statusCode = 201
        /\ calls[r2].pc = "done"
        /\ calls[r2].authorization # <<>>
        /\ calls[r2].authorization[2].exp = 0
        /\ calls[r2].res.body.message = "Unauthorized: Token expired"

\* C28: the records of _fakeDb have pairwise distinct ids in every sequence
\* and interleaving of createPost calls. Refuted: the id is Date.now(), and two
\* calls that reach the repository in the same millisecond get the same id.
C28_FakeDbIdsDistinct ==
    \A i, j \in 1..Len(fakeDb) : i # j => fakeDb[i].id # fakeDb[j].id

-----------------------------------------------------------------------------
(* src/services/email.service.js on Nodemailer, and the register that       *)
(* awaits it                                                                *)

\* the auth service after the email chapter (Nodemailer)
NodemailerRevision ==
    [auth |-> "nodemailer", repository |-> "sequelize", routes |-> "protected"]

\* How transporter.sendMail(msg) ended: resolved, or rejected by the SMTP
\* connection.
SendMailResults == {"sent", "rejected"}

\* await emailService.sendWelcomeEmail(newUser.email, newUser.name) and the
\* rest of register: sendEmail awaits transporter.sendMail and catches
\* nothing, so a rejection rejects register; else register returns newUser
WelcomeEmailAwaited(r, result) ==
    /\ calls[r].pc = "sendWelcomeEmail"
    /\ LET newUser == CHOOSE u \in calls[r].newUser : TRUE IN
        calls' = [calls EXCEPT ![r] =
            IF result = "rejected"
            THEN Controller([@ EXCEPT !.mail = result],
                            Throw(LibraryError("Error", "connect ECONNREFUSED")), 201)
            ELSE Controller([@ EXCEPT !.mail = result], Return(RegisterResult(newUser)), 201)]
    /\ UNCHANGED <<Users, nextId>>
    /\ UNCHANGED siteVars
    /\ UNCHANGED deployVars
    /\ UNCHANGED postVars

InitNodemailer ==
    /\ featureList = FeatureList
    /\ rendered = <<>>
    /\ Users \in {{}, {SeedRow}}
    /\ nextId = Cardinality(Users) + 1
    /\ calls = [r \in Requests |-> Idle]
    /\ config \in {ConfigOf(env) : env \in Envs}
    /\ revision = NodemailerRevision
    /\ InitPostVars

NextNodemailer ==
    \/ \E r \in Requests, userData \in RegisterBodies : RegisterFindUser(r, userData)
    \/ \E r \in Requests, salt \in Salts : RegisterHash(r, salt)
    \/ \E r \in Requests : RegisterCreateUser(r)
    \/ \E r \in Requests, result \in SendMailResults : WelcomeEmailAwaited(r, result)

SpecNodemailer == InitNodemailer /\ [][NextNodemailer]_vars

\* C30: in the Nodemailer variant register is all-or-nothing: a register that
\* failed with an error has added no user. Refuted: the email is awaited after
\* createUser has stored the row, and a rejected sendMail fails register with
\* the row still in the table.
C30_FailedRegisterAddsNoUser ==
    \A r \in Requests :
        (/\ calls[r].op = "register"
         /\ calls[r].pc = "done"
         /\ calls[r].outcome.kind = "throw")
            => calls[r].newUser \cap Users = {}

-----------------------------------------------------------------------------
(* src/config/index.js: module.exports = Object.freeze(config)             *)

\* The objects Object.freeze(config) freezes, named by their path from the
\* exported object: the exported object itself. Object.freeze does not go into
\* the objects its properties hold, so config.app and config.jwt stay open.
FrozenObjects == {<<>>}

\* the assignments a module that required the config can write:
\* config.app = v, config.jwt = v, config.app.port = v, ...
ConfigPaths ==
    {<<"app">>, <<"jwt">>, <<"app", "port">>, <<"app", "env">>,
     <<"jwt", "secret">>, <<"jwt", "expiresIn">>}

\* the values tried for each property
ConfigValues(path) ==
    IF path = <<"app">> THEN {[port |-> 8080, env |-> "test"]}
    ELSE IF path = <<"jwt">> THEN {[secret |-> "another-secret", expiresIn |-> "7d"]}
    ELSE IF path = <<"app", "port">> THEN {3000, 3001, 8080}
    ELSE IF path = <<"app", "env">> THEN Envs
    ELSE IF path = <<"jwt", "secret">>
    THEN {"my-super-secret-long-key-change-this", "another-secret", ""}
    ELSE {"1d", "7d", "1h", "0"}

\* all but the last name of a path: the object the assignment writes to
Holder(path) == SubSeq(path, 1, Len(path) - 1)

\* config.a = value or config.a.b = value, run by any module: an assignment to
\* a property of a frozen object changes nothing (it is ignored, or throws a
\* TypeError in strict mode); to any other object it takes effect
AssignConfig(path, value) ==
    /\ config' = IF Holder(path) \in FrozenObjects
                 THEN config
                 ELSE [config EXCEPT ![path[1]][path[2]] = value]
    /\ UNCHANGED revision
    /\ UNCHANGED authVars
    /\ UNCHANGED siteVars
    /\ UNCHANGED postVars

\* the application started with no NODE_ENV and no PORT set
InitConfig ==
    /\ featureList = FeatureList
    /\ rendered = <<>>
    /\ InitAuthVars
    /\ InitDeployVars
    /\ InitPostVars

NextConfig ==
    \E path \in ConfigPaths : \E value \in ConfigValues(path) : AssignConfig(path, value)

SpecConfig == InitConfig /\ [][NextConfig]_vars

\* C25: once src/config/index.js has exported the configuration object, no
\* later assignment by any module changes a configuration value. Refuted:
\* only the exported object is frozen, and config.app.port = 8080 or
\* config.app.env = "test" writes to the object held in config.app.
C25_ConfigNeverChanges ==
    config = ConfigOf("development")

-----------------------------------------------------------------------------
(* src/app.js with the global error handler, and src/routes/index.js       *)

\* router.get("/health", healthController.checkHealth) under app.use("/api/v1")
HealthRoute == [method |-> "GET", path |-> "/api/v1/health"]

\* the URLs requested: the health route and three that no route has
Urls == {"/api/v1/health", "/api/v1/unknown", "/api/v2/health", "/"}

\* The requests followed through app.js: body says whether the request has no
\* body, a JSON body, or a body sent as JSON that does not parse.
AppRequests ==
    [method : {"GET", "POST"}, originalUrl : Urls,
     body : {"none", "json", "malformed"}, query : {NoQuery}]

\* The error express.json() passes to next for a body that does not parse: a
\* SyntaxError that body-parser gives statusCode 400 and status 400 (kept here
\* as the text "400") and no isOperational.
BodyParseError ==
    [name |-> "SyntaxError", statusCode |-> 400, status |-> "400",
     message |-> "Unexpected token in JSON", isOperational |-> FALSE, errors |-> <<>>]

\* A catch-all that reports an unknown route as an error of the server.
CatchAllErrorInternal(originalUrl) ==
    ApiError(500, <<"Can't find ", originalUrl, " on this server!">>)

\* new ApiError(404, `Can't find ${req.originalUrl} on this server!`)
CatchAllError(originalUrl) ==
    ApiError(404, <<"Can't find ", originalUrl, " on this server!">>)

\* const checkHealth = catchAsync(async (req, res) => { res.status(200).json(...) })
checkHealth(call) ==
    [call EXCEPT !.pc = "done", !.outcome = Return(<<>>),
                 !.next = @ \o catchAsync(Return(<<>>)),
                 !.res = Json(200, [status |-> "ok", message |-> "Service is healthy"])]

\* One request through app.js: express.json() reads the body and ends the
\* request with its error when the body does not parse; the main router
\* serves GET /api/v1/health; everything else falls to app.all("*"), which
\* calls next with the 404 error; globalErrorHandler, last, answers an error.
HandleRequest(r, request) ==
    /\ calls[r].pc = "idle"
    /\ calls' = [calls EXCEPT ![r] =
        LET call == [@ EXCEPT !.op = "app", !.request = request] IN
        IF request.body = "malformed"
        THEN [call EXCEPT !.pc = "done",
                          !.next = <<NextCall("express.json", <<BodyParseError>>)>>,
                          !.res = globalErrorHandler(BodyParseError)]
        ELSE IF request.method = HealthRoute.method /\ request.originalUrl = HealthRoute.path
        THEN checkHealth(call)
        ELSE [call EXCEPT !.pc = "done",
                          !.next = <<NextCall("app.all", <<CatchAllError(request.originalUrl)>>)>>,
                          !.res = globalErrorHandler(CatchAllError(request.originalUrl))]]
    /\ UNCHANGED <<Users, nextId>>
    /\ UNCHANGED siteVars
    /\ UNCHANGED deployVars
    /\ UNCHANGED postVars

InitRoutes ==
    /\ featureList = FeatureList
    /\ rendered = <<>>
    /\ InitAuthVars
    /\ config \in {ConfigOf(env) : env \in Envs}
    /\ revision = BaseRevision
    /\ InitPostVars

NextRoutes ==
    \E r \in Requests, request \in AppRequests : HandleRequest(r, request)

SpecRoutes == InitRoutes /\ [][NextRoutes]_vars

\* a request, answered, whose path no route has
UnknownRoute(call) ==
    /\ call.op = "app"
    /\ call.pc = "done"
    /\ call.request.originalUrl # HealthRoute.path

-----------------------------------------------------------------------------
(* src/utils/pagination.js, and the repository, service and controller of  *)
(* GET /api/v1/posts with pagination and search                            *)

\* most posts in the table when the pages are read
MaxPosts == 4

\* whether a value of req.query counts as true: a string that is not empty,
\* "0" included
Truthy(v) == v.kind \in {"number", "text"}

\* +v, and v in arithmetic: the number a value of req.query converts to
ToNumber(v) ==
    IF v.kind = "number" THEN Finite(v.n)
    ELSE IF v.kind = "empty" THEN Finite(0)
    ELSE NaN

\* x - y and x * y of JavaScript, for the numbers that arise here
Minus(x, y) ==
    IF x.kind = "finite" /\ y.kind = "finite" THEN Finite(x.n - y.n) ELSE NaN
Times(x, y) ==
    IF x.kind = "finite" /\ y.kind = "finite" THEN Finite(x.n * y.n) ELSE NaN

\* Math.ceil(a / b) for a count a >= 0
MathCeilOfQuotient(a, b) ==
    IF b.kind # "finite" THEN NaN
    ELSE IF b.n > 0 THEN Finite((a + b.n - 1) \div b.n)
    ELSE IF b.n < 0 THEN Finite(0 - (a \div (0 - b.n)))
    ELSE IF a = 0 THEN NaN
    ELSE Infinity

\* A getPagination that counts pages from 0.
getPaginationFromZero(page, size) ==
    LET limit == IF Truthy(size) THEN ToNumber(size) ELSE Finite(10) IN
    [limit |-> limit,
     offset |-> IF Truthy(page) THEN Times(ToNumber(page), limit) ELSE Finite(0)]

\* const getPagination = (page, size) => {...}
getPagination(page, size) ==
    LET limit == IF Truthy(size) THEN ToNumber(size) ELSE Finite(10) IN
    [limit |-> limit,
     offset |-> IF Truthy(page) THEN Times(Minus(ToNumber(page), Finite(1)), limit)
                ELSE Finite(0)]

\* A getPagingData that always reports the first page.
getPagingDataFirstPage(data, page, limit) ==
    [totalItems |-> data.count, items |-> data.rows,
     totalPages |-> MathCeilOfQuotient(data.count, limit),
     currentPage |-> Finite(1)]

\* const getPagingData = (data, page, limit) => {...}
getPagingData(data, page, limit) ==
    [totalItems |-> data.count, items |-> data.rows,
     totalPages |-> MathCeilOfQuotient(data.count, limit),
     currentPage |-> IF Truthy(page) THEN ToNumber(page) ELSE Finite(1)]

\* the first n posts made with the titles "First Post" and "Second Post" in
\* turn, two in each millisecond
SeedPosts(n) ==
    {[id |-> i, title |-> IF i % 2 = 1 THEN "First Post" ELSE "Second Post",
      content |-> <<"This is saved in Postgres!">>, status |-> "published",
      createdAt |-> (i + 1) \div 2, updatedAt |-> (i + 1) \div 2] : i \in 1..n}

\* title ILIKE '%pattern%', for the titles and patterns used here
ILike(title, pattern) ==
    \/ pattern = "post"
    \/ pattern = "First" /\ title = "First Post"

\* const condition = title ? { title: { [Op.iLike]: `%${title}%` } } : null,
\* and the rows of the table the condition selects
Where(title) == {p \in Posts : title = "" \/ ILike(p.title, title)}

\* order: [["createdAt", "DESC"]]: the orders the database may return the
\* rows in; rows of the same createdAt come in any order
Orderings(rows) ==
    {order \in [1..Cardinality(rows) -> rows] :
        /\ \A i, j \in 1..Cardinality(rows) : i # j => order[i] # order[j]
        /\ \A i, j \in 1..Cardinality(rows) :
                i < j => order[i].createdAt >= order[j].createdAt}

\* LIMIT limit OFFSET offset of an ordered result
Page(order, limit, offset) ==
    SubSeq(order, offset + 1,
           IF offset + limit < Len(order) THEN offset + limit ELSE Len(order))

\* The pages LIMIT and OFFSET may give: Sequelize writes a limit of 0 as
\* LIMIT 0 or leaves it out, depending on its version.
Pages(order, limit, offset) ==
    {Page(order, limit, offset)}
        \cup (IF limit = 0 THEN {Page(order, Len(order), offset)} ELSE {})

\* PostgreSQL refuses a LIMIT or OFFSET that is negative or no number
Refused(paging) ==
    \/ paging.limit.kind # "finite"
    \/ paging.offset.kind # "finite"
    \/ paging.limit.n < 0
    \/ paging.offset.n < 0

\* the values of ?page=, ?size= and ?title= a client sends
PageValues == {Absent, Empty, Text} \cup {Num(n) : n \in -1..3}
SizeValues == {Absent, Empty, Text} \cup {Num(n) : n \in -1..2}
Queries == [page : PageValues, size : SizeValues, title : {"", "First", "post"}]

\* GET /api/v1/posts?page=..&size=..&title=..: the controller passes req.query
\* to getAllPosts, which computes limit and offset and calls the repository.
\* One client sends its requests one after the other.
GetPostsPaged(query) ==
    /\ calls[1].pc \in {"idle", "done"}
    /\ calls' = [calls EXCEPT ![1] =
            [Idle EXCEPT !.op = "getPostsPaged", !.pc = "findAndCountAll",
                         !.request.query = query,
                         !.paging = getPagination(query.page, query.size)]]
    /\ UNCHANGED <<Users, nextId>>
    /\ UNCHANGED siteVars
    /\ UNCHANGED deployVars
    /\ UNCHANGED postVars

\* await Post.findAndCountAll({where, limit, offset, order}) answers, and
\* getAllPosts formats the response with getPagingData
FindAndCountAll ==
    /\ calls[1].pc = "findAndCountAll"
    /\ LET query == calls[1].request.query
           paging == calls[1].paging
           found == Where(query.title)
       IN  IF Refused(paging)
           THEN calls' = [calls EXCEPT ![1] =
                    Controller(@, Throw(LibraryError("SequelizeDatabaseError",
                                    "LIMIT or OFFSET must not be negative")), 200)]
           ELSE \E order \in Orderings(found) :
                \E rows \in Pages(order, paging.limit.n, paging.offset.n) :
                    calls' = [calls EXCEPT ![1] =
                        Controller(@, Return(getPagingData(
                                        [count |-> Cardinality(found), rows |-> rows],
                                        query.page, paging.limit)), 200)]
    /\ UNCHANGED <<Users, nextId>>
    /\ UNCHANGED siteVars
    /\ UNCHANGED deployVars
    /\ UNCHANGED postVars

\* the application with pagination: up to MaxPosts posts are stored
InitPaging ==
    /\ featureList = FeatureList
    /\ rendered = <<>>
    /\ InitAuthVars
    /\ InitDeployVars
    /\ \E n \in 0..MaxPosts :
        /\ Posts = SeedPosts(n)
        /\ nextPostId = n + 1
        /\ now = (n + 1) \div 2 + 1
    /\ fakeDb = <<>>
    /\ restarts = 0
    /\ acked = {}

NextPaging ==
    \/ \E query \in Queries : GetPostsPaged(query)
    \/ FindAndCountAll

SpecPaging == InitPaging /\ [][NextPaging]_vars


\* the calls of GET /api/v1/posts with pagination
Paged == {r \in Requests : calls[r].op = "getPostsPaged"}

\* what ?size= and ?page= mean to getPagination: 10 and 1 when left out
SizeOf(query) == IF query.size.kind = "number" THEN query.size.n ELSE 10
PageOf(query) == IF query.page.kind = "number" THEN query.page.n ELSE 1

\* a query whose page and size are left out or numbers
Numeric(query) ==
    /\ query.page.kind \in {"absent", "number"}
    /\ query.size.kind \in {"absent", "number"}

\* C23: getPagination(page, size) returns limit = size when size is given and
\* 10 otherwise, and offset = (page - 1) * limit when page is given and 0
\* otherwise; page 2 with limit 10 gives offset 10.
C23_GetPagination ==
    \A r \in Paged :
        LET query == calls[r].request.query
            paging == calls[r].paging
        IN  Numeric(query) =>
                /\ paging.limit = Finite(SizeOf(query))
                /\ paging.offset =
                        IF query.page.kind = "number"
                        THEN Finite((query.page.n - 1) * SizeOf(query))
                        ELSE Finite(0)

\* ?page=2 without a size was given limit 10 and offset 10.
C23_Witness ==
    \E r \in Paged :
        /\ calls[r].request.query.page = Num(2)
        /\ calls[r].request.query.size = Absent
        /\ calls[r].paging = [limit |-> Finite(10), offset |-> Finite(10)]

\* C24: getAllPosts with page p >= 1 and size s >= 1 over n posts answers
\* totalItems = n, at most s items, totalPages = ceil(n / s) and
\* currentPage = p, which is 1 when no page is sent.
C24_GetAllPosts ==
    \A r \in Paged :
        LET query == calls[r].request.query
            n == Cardinality(Where(query.title))
        IN  (/\ calls[r].pc = "done"
             /\ Numeric(query)
             /\ PageOf(query) >= 1
             /\ SizeOf(query) >= 1)
            => /\ calls[r].outcome.kind = "return"
               /\ calls[r].res.statusCode = 200
               /\ calls[r].res.body.data.totalItems = n
               /\ Len(calls[r].res.body.data.items) <= SizeOf(query)
               /\ calls[r].res.body.data.totalPages
                    = Finite((n + SizeOf(query) - 1) \div SizeOf(query))
               /\ calls[r].res.body.data.currentPage = Finite(PageOf(query))

\* With 4 posts stored, ?page=1&size=2 was answered two items and
\* totalItems 4, totalPages 2, currentPage 1.
C24_Witness ==
    /\ Cardinality(Posts) = 4
    /\ \E r \in Paged :
        /\ calls[r].pc = "done"
        /\ calls[r].request.query = [page |-> Num(1), size |-> Num(2), title |-> ""]
        /\ calls[r].outcome.kind = "return"
        /\ Len(calls[r].res.body.data.items) = 2
        /\ calls[r].res.body.data.totalItems = 4
        /\ calls[r].res.body.data.totalPages = Finite(2)
        /\ calls[r].res.body.data.currentPage = Finite(1)

\* C29: for every page and size a client can send, getPagination returns an
\* offset >= 0 and a limit >= 1. Refuted: ?size=0 gives limit 0, ?size=-1 a
\* negative limit, ?page=0 a negative offset, and a page or size that is no
\* number gives NaN.
C29_LimitAndOffsetInRange ==
    \A r \in Paged :
        /\ calls[r].paging.limit.kind = "finite"
        /\ calls[r].paging.limit.n >= 1
        /\ calls[r].paging.offset.kind = "finite"
        /\ calls[r].paging.offset.n >= 0

-----------------------------------------------------------------------------
(* docs/Common Features/sending-emails.md, "Input Validation with Zod":    *)
(* src/middlewares/validate.middleware.js, src/validations/auth.validation *)
(* .js and src/routes/auth.routes.js.  A string is the sequence of its     *)
(* characters, a text built by join or a template the sequence of its      *)
(* pieces.  The messages are those of Zod 3, which the chapter shows.      *)

\* values of JSON: a string of characters, or a number
Str(chars) == [type |-> "string", chars |-> chars]
Number == [type |-> "number", chars |-> <<>>]

\* the string of n times the character c
Repeat(c, n) == [i \in 1..n |-> c]

\* /\d/
Digits == {"0", "1", "2", "3", "4", "5", "6", "7", "8", "9"}

\* z.string().email(), in short: local@domain.tld
IsEmail(chars) ==
    \E at \in 2..Len(chars) : \E dot \in (at + 2)..(Len(chars) - 1) :
        /\ chars[at] = "@"
        /\ chars[dot] = "."
        /\ \A i \in 1..Len(chars) : chars[i] = "@" => i = at

\* the checks of z.string(): whether a string passes, and the message of the
\* issue when it does not
Passes(check, chars) ==
    CASE check.kind = "min" -> Len(chars) >= check.n
      [] check.kind = "max" -> Len(chars) <= check.n
      [] check.kind = "email" -> IsEmail(chars)
      [] check.kind = "regex" -> \E i \in 1..Len(chars) : chars[i] \in Digits

Min(n) == [kind |-> "min", n |-> n,
           message |-> <<"String must contain at least ", ToString(n), " character(s)">>]
Max(n) == [kind |-> "max", n |-> n,
           message |-> <<"String must contain at most ", ToString(n), " character(s)">>]
Email == [kind |-> "email", n |-> 0, message |-> <<"Invalid email">>]
Regex(message) == [kind |-> "regex", n |-> 0, message |-> <<message>>]

\* const register = z.object({body: z.object({name, email, password})}) and
\* const login = z.object({body: z.object({email, password})}): the keys of
\* the body object in order, each a z.string() with its checks
register ==
    <<[key |-> "name", checks |-> <<Min(2), Max(30)>>],
      [key |-> "email", checks |-> <<Email>>],
      [key |-> "password",
       checks |-> <<Min(8), Regex("Password must contain a number")>>]>>
login ==
    <<[key |-> "email", checks |-> <<Email>>],
      [key |-> "password", checks |-> <<>>]>>

\* router.post("/register", validate(authValidation.register), ...) and
\* router.post("/login", validate(authValidation.login), ...)
AuthRoutes ==
    {[originalUrl |-> "/api/v1/auth/register", schema |-> register],
     [originalUrl |-> "/api/v1/auth/login", schema |-> login]}

\* the keys a schema of a body declares
Shape(schema) == {schema[i].key : i \in 1..Len(schema)}

Issue(path, message) == [path |-> path, message |-> message]

\* the issues of one key of the body: a missing key and a value that is no
\* string give one issue, a string one issue for each check it fails
FieldIssues(field, body) ==
    IF field.key \notin DOMAIN body
    THEN <<Issue(<<"body", field.key>>, <<"Required">>)>>
    ELSE IF body[field.key].type # "string"
    THEN <<Issue(<<"body", field.key>>, <<"Expected string, received number">>)>>
    ELSE LET failed == SelectSeq(field.checks,
                            LAMBDA check : ~Passes(check, body[field.key].chars))
         IN  [i \in 1..Len(failed) |->
                    Issue(<<"body", field.key>>, failed[i].message)]

RECURSIVE BodyIssues(_, _)
BodyIssues(schema, body) ==
    IF schema = <<>> THEN <<>>
    ELSE FieldIssues(Head(schema), body) \o BodyIssues(Tail(schema), body)

\* A z.object that keeps the keys its shape does not declare.
Passthrough(schema, body) == body

\* z.object leaves out of its output the keys its shape does not declare
Strip(schema, body) == [k \in Shape(schema) |-> body[k]]

\* schema.safeParse({body, query, params}): the outer object declares body
\* only, so its output has no query and no params
safeParse(schema, objectToValidate) ==
    LET issues == IF objectToValidate.body = <<>>
                  THEN <<Issue(<<"body">>, <<"Required">>)>>
                  ELSE BodyIssues(schema, objectToValidate.body[1])
    IN  IF issues # <<>>
        THEN [success |-> FALSE, issues |-> issues, data |-> NoReq]
        ELSE [success |-> TRUE, issues |-> <<>>,
              data |-> [k \in {"body"} |->
                            <<Strip(schema, objectToValidate.body[1])>>]]

\* texts.join(separator)
RECURSIVE Join(_, _)
Join(texts, separator) ==
    IF texts = <<>> THEN <<>>
    ELSE IF Len(texts) = 1 THEN texts[1]
    ELSE texts[1] \o <<separator>> \o Join(Tail(texts), separator)

\* `${err.path.join(".")}: ${err.message}`
IssueText(err) ==
    Join([i \in 1..Len(err.path) |-> <<err.path[i]>>], ".") \o <<": ">> \o err.message

\* A message of the first issue only.
errorMessageOfFirst(issues) == IssueText(issues[1])

\* result.error.errors.map(...).join(", ")
errorMessage(issues) ==
    Join([i \in 1..Len(issues) |-> IssueText(issues[i])], ", ")

\* Object.assign(target, source)
ObjectAssign(target, source) ==
    [k \in DOMAIN target \cup DOMAIN source |->
        IF k \in DOMAIN source THEN source[k] ELSE target[k]]

\* the bodies a client sends: each key is left out or has one of its values
Option(values) == {<<>>} \cup {<<v>> : v \in values}
SentNames == {Number, Str(<<"A">>), Str(<<"J", "o">>), Str(Repeat("x", 31))}
SentEmails == {Str(<<"n", "o", "t">>), Str(<<"j", "@", "x", ".", "i", "o">>)}
SentPasswords ==
    {Str(<<"p", "1">>), Str(<<"p">>), Str(Repeat("p", 8)),
     Str(Repeat("p", 7) \o <<"1">>)}
SentRoles == {Str(<<"a", "d", "m", "i", "n">>)}
BodyOf(name, email, password, role) ==
    [k \in {key \in {"name", "email", "password", "role"} :
                CASE key = "name" -> name # <<>>
                  [] key = "email" -> email # <<>>
                  [] key = "password" -> password # <<>>
                  [] key = "role" -> role # <<>>} |->
        CASE k = "name" -> name[1]
          [] k = "email" -> email[1]
          [] k = "password" -> password[1]
          [] k = "role" -> role[1]]
Bodies ==
    {BodyOf(name, email, password, role) :
        name \in Option(SentNames), email \in Option(SentEmails),
        password \in Option(SentPasswords), role \in Option(SentRoles)}
Reqs ==
    [body : Option(Bodies),
     query : {EmptyObject, [k \in {"ref"} |-> Str(<<"a">>)]},
     params : {EmptyObject}]

\* const validate = (schema) => (req, res, next) => {...} on a request to
\* /register or /login; an error passed to next is answered by
\* globalErrorHandler, next() hands the request to the controller.  One
\* client sends its requests one after the other.
Validate(route, req) ==
    /\ calls[1].pc \in {"idle", "done"}
    /\ LET objectToValidate ==
               [body |-> req.body, query |-> req.query, params |-> req.params]
           result == safeParse(route.schema, objectToValidate)
           call == [Idle EXCEPT !.op = "validate", !.sent = req,
                        !.request = [method |-> "POST",
                                     originalUrl |-> route.originalUrl,
                                     body |-> "json", query |-> NoQuery]]
       IN  calls' = [calls EXCEPT ![1] =
                IF ~result.success
                THEN LET err == ApiError(400, errorMessage(result.issues)) IN
                     [call EXCEPT !.pc = "done", !.req = req,
                                  !.next = <<NextCall("validate", <<err>>)>>,
                                  !.res = globalErrorHandler(err)]
                ELSE [call EXCEPT !.pc = "controller",
                                  !.req = ObjectAssign(req, result.data),
                                  !.next = <<NextCall("validate", <<>>)>>]]
    /\ UNCHANGED <<Users, nextId>>
    /\ UNCHANGED siteVars
    /\ UNCHANGED deployVars
    /\ UNCHANGED postVars

\* authController.register or authController.login starts: it reads req.body
AuthController ==
    /\ calls[1].pc = "controller"
    /\ calls' = [calls EXCEPT ![1] =
            [@ EXCEPT !.pc = "done", !.handled = <<calls[1].req.body[1]>>]]
    /\ UNCHANGED <<Users, nextId>>
    /\ UNCHANGED siteVars
    /\ UNCHANGED deployVars
    /\ UNCHANGED postVars

InitValidate ==
    /\ featureList = FeatureList
    /\ rendered = <<>>
    /\ InitAuthVars
    /\ \E env \in Envs : config = ConfigOf(env)
    /\ revision = BaseRevision
    /\ InitPostVars

NextValidate ==
    \/ \E route \in AuthRoutes : \E req \in Reqs : Validate(route, req)
    \/ AuthController

SpecValidate == InitValidate /\ [][NextValidate]_vars


\* the calls of the validation middleware, the schema of a call's route and
\* the result of the schema on what the client sent
Validated == {r \in Requests : calls[r].op = "validate"}
SchemaOf(call) ==
    (CHOOSE route \in AuthRoutes :
        route.originalUrl = call.request.originalUrl).schema
ResultOf(call) == safeParse(SchemaOf(call), call.sent)

\* whether a text has the pieces of another text in a row
Contains(text, part) ==
    \E k \in 0..(Len(text) - Len(part)) : SubSeq(text, k + 1, k + Len(part)) = part

C22_UnknownKeysStripped ==
    \A r \in Validated :
        (calls[r].next # <<>> /\ calls[r].next[1].args = <<>>) =>
            /\ calls[r].req.body # <<>>
            /\ DOMAIN calls[r].req.body[1] = Shape(SchemaOf(calls[r]))
            /\ \A k \in DOMAIN calls[r].req.body[1] :
                    calls[r].req.body[1][k] = calls[r].sent.body[1][k]
            /\ calls[r].req.query = calls[r].sent.query
            /\ calls[r].req.params = calls[r].sent.params
            /\ calls[r].handled # <<>> =>
                    DOMAIN calls[r].handled[1] = Shape(SchemaOf(calls[r]))

\* A request to /login that also had name and role in its body passed the
\* schema, and the controller read a body of email and password only.
C22_Witness ==
    \E r \in Validated :
        /\ calls[r].request.originalUrl = "/api/v1/auth/login"
        /\ calls[r].sent.body # <<>>
        /\ {"name", "role"} \subseteq DOMAIN calls[r].sent.body[1]
        /\ calls[r].next = <<NextCall("validate", <<>>)>>
        /\ calls[r].handled # <<>>
        /\ DOMAIN calls[r].handled[1] = {"email", "password"}

=============================================================================
